---------------------------- MODULE Spec2Model ----------------------------
(***************************************************************************)
(* flake8-commas: the trailing-comma checker of src/flake8_commas.py.      *)
(*                                                                         *)
(* The checker is one generator, get_comma_errors, that pulls tokens from  *)
(* simple_tokens (comment filter, blank-line collapse, reclassification)   *)
(* and runs its loop body once per normalized token.  The model reads the  *)
(* raw token stream one token at a time; a step is everything the          *)
(* generators do for that raw token.                                       *)
(*                                                                         *)
(* A token's position (tokenize's `end`, a (line, column) pair) is modelled*)
(* as the token's index in the stream, comments not counted: positions are *)
(* only copied into diagnostics and compared for order, and a comment's is *)
(* never read.                                                             *)
(***************************************************************************)
EXTENDS Integers, Sequences, FiniteSets

\* Number of raw tokens the tokenizer delivers before the stream ends.
MaxTokens == 7

(***************************************************************************)
(* Raw tokens: tokenize.TokenInfo, reduced to .type and .string            *)
(***************************************************************************)
PYTHON_KWDS ==
    { "False", "None", "True", "and", "as", "assert", "break", "class",
      "continue", "def", "del", "elif", "else", "except", "finally", "for",
      "from", "global", "if", "import", "in", "is", "lambda", "nonlocal",
      "not", "or", "pass", "raise", "return", "try", "while", "with",
      "yield" }

\* ALL_KWDS that keeps `import`.
ALL_KWDS_with_import == PYTHON_KWDS

ALL_KWDS == PYTHON_KWDS \ {"import"}

\* Raw tokens by class: a NAME, an OP, and the tokens told by type alone.
Name(s) == [type |-> "NAME", string |-> s]
Op(s) == [type |-> "OP", string |-> s]
RawNL == [type |-> "NL", string |-> ""]
RawNEWLINE == [type |-> "NEWLINE", string |-> ""]
RawCOMMENT == [type |-> "COMMENT", string |-> "#"]
RawNUMBER == [type |-> "NUMBER", string |-> "1"]

\* The token streams explored: every stream of at most MaxTokens tokens
\* drawn from one of these vocabularies, with comments anywhere in it.
Vocabularies ==
    { {Name("x"), Op("("), Op(","), RawNL, Op(")")},
      {Name("x"), Op("["), Op(","), RawNL, Op("]")},
      {Name("x"), Op("{"), Op(","), RawNL, Op("}")},
      {Name("def"), Name("x"), Op("("), RawNL, Op(")")},
      {Op("["), Name("for"), Op(","), RawNL, Op("]")},
      {Name("x"), Op("="), Op(","), RawNEWLINE, Op("(")},
      {Name("lambda"), Name("x"), Op(","), Op(":"), Op("[")},
      {Name("import"), Name("return"), Op("("), RawNL, Op(")")},
      {RawNUMBER, Op("("), Op("{"), Op("}"), RawNL},
      {Name("return"), Name("yield"), Name("import"), Op("[")},
      {Name("in"), Name("not"), Name("assert"), Op("(")},
      {Name("def"), Name("import"), Op("(")},
      {Name("lambda"), Op(":"), Op("("), Op(")")} }

(***************************************************************************)
(* class Comma, class Context                                              *)
(***************************************************************************)
NO == "no"
TUPLE == "tuple-or-parenth-form"
SUBSCRIPT == "subscript"
LIST == "list"
DICT == "dict"
LAMBDA_PARAMETERS == "lambda-parameters"
FUNCTION_PARAMETERS == "function-parameters"
CALL_ARGUMENTS == "argument-list"

is_always_allowed(comma) ==
    comma \in {LIST, DICT, FUNCTION_PARAMETERS, CALL_ARGUMENTS}

is_tupleish(comma) ==
    comma \in {SUBSCRIPT, TUPLE}

Context(comma) == [comma |-> comma, n |-> 0]

(***************************************************************************)
(* class TokenType, class Token                                            *)
(***************************************************************************)
NL == "nl"
NEWLINE == "newline"
COMMA == ","
OPENING_BRACKET == "("
OPENING_SQUARE_BRACKET == "["
OPENING_CURLY_BRACKET == "{"
SOME_CLOSING == "some-closing"
FOR == "for"
NAMED == "named"
DEF_KW == "def"
LAMBDA_KW == "lambda"
COLON == ":"
\* `type = None`: a token none of the rules look at.
NoType == "None"

\* Token.none(): info is None (no position, written end = 0, and no
\* string), type is None.
none == [type |-> NoType, end |-> 0, string |-> ""]

\* `info is not None`
has_info(t) == t.end # 0

\* The type Token.from_token gives a raw token.
from_token_type(token) ==
    IF token.type = "NL" THEN NL
    ELSE IF token.type = "NEWLINE" THEN NEWLINE
    ELSE IF token.type = "NAME" /\ token.string = "for" THEN FOR
    ELSE IF token.type = "NAME" /\ token.string = "def" THEN DEF_KW
    ELSE IF token.type = "NAME" /\ token.string = "lambda" THEN LAMBDA_KW
    ELSE IF token.type = "NAME" /\ token.string \notin ALL_KWDS THEN NAMED
    ELSE IF token.string = "," THEN COMMA
    ELSE IF token.string = "(" THEN OPENING_BRACKET
    ELSE IF token.string = "[" THEN OPENING_SQUARE_BRACKET
    ELSE IF token.string \in {"[", "{"} THEN OPENING_CURLY_BRACKET
    ELSE IF token.string \in {"]", ")", "}"} THEN SOME_CLOSING
    ELSE IF token.string = ":" THEN COLON
    ELSE NoType

\* Token.from_token of the raw token that ends at position `end`; of
\* `info` the token keeps the position and the string.
from_token(token, end) ==
    [type |-> from_token_type(token), end |-> end, string |-> token.string]

is_opening(t) ==
    t.type \in {OPENING_BRACKET, OPENING_SQUARE_BRACKET, OPENING_CURLY_BRACKET}

(***************************************************************************)
(* get_comma_errors: the loop body                                         *)
(***************************************************************************)
C812 == "C812 missing trailing comma"
C818 == "C818 trailing comma on bare tuple prohibited"
C819 == "C819 trailing comma prohibited"

\* Error(message, line, col), the position being the token's `end`.
Error(message, end) == [message |-> message, pos |-> end]

\* stack[-1]
Top(s) == s[Len(s)]

\* stack[-1] = c
SetTop(s, c) == [s EXCEPT ![Len(s)] = c]

\* stack.pop()
Pop(s) == SubSeq(s, 1, Len(s) - 1)

\* window.append(token) on a deque of maxlen 3.
WindowAppend(w, t) ==
    IF Len(w) = 3 THEN <<w[2], w[3], t>> ELSE Append(w, t)

\* OpeningContext that takes every `[` for a list.
OpeningContext_no_subscript(prev_prev, prev, t) ==
    IF t.type = OPENING_BRACKET
    THEN IF prev.type \in {SOME_CLOSING, NAMED}
         THEN IF prev_prev.type = DEF_KW
              THEN Context(FUNCTION_PARAMETERS)
              ELSE Context(CALL_ARGUMENTS)
         ELSE Context(TUPLE)
    ELSE IF t.type = OPENING_SQUARE_BRACKET
    THEN Context(LIST)
    ELSE Context(DICT)

\* OpeningContext that tests for `def` two tokens back before it looks at
\* the previous token.
OpeningContext_def_first(prev_prev, prev, t) ==
    IF t.type = OPENING_BRACKET
    THEN IF prev_prev.type = DEF_KW
         THEN Context(FUNCTION_PARAMETERS)
         ELSE IF prev.type \in {SOME_CLOSING, NAMED}
              THEN Context(CALL_ARGUMENTS)
              ELSE Context(TUPLE)
    ELSE IF t.type = OPENING_SQUARE_BRACKET
    THEN IF prev.type \in {SOME_CLOSING, NAMED}
         THEN Context(SUBSCRIPT)
         ELSE Context(LIST)
    ELSE Context(DICT)

\* The context an opening bracket pushes.
OpeningContext(prev_prev, prev, t) ==
    IF t.type = OPENING_BRACKET
    THEN IF prev.type \in {SOME_CLOSING, NAMED}
         THEN IF prev_prev.type = DEF_KW
              THEN Context(FUNCTION_PARAMETERS)
              ELSE Context(CALL_ARGUMENTS)
         ELSE Context(TUPLE)
    ELSE IF t.type = OPENING_SQUARE_BRACKET
    THEN IF prev.type \in {SOME_CLOSING, NAMED}
         THEN Context(SUBSCRIPT)
         ELSE Context(LIST)
    ELSE Context(DICT)

\* ForReset that leaves the stack as it is.
ForReset_none(s) == s

\* The `for` branch: stack[-1] = Context(Comma.NO).
ForReset(s) == SetTop(s, Context(NO))

\* CountComma that leaves the bottom context alone.
CountComma_above_bottom(s) ==
    IF Len(s) = 1 THEN s ELSE SetTop(s, [Top(s) EXCEPT !.n = @ + 1])

\* CountComma that counts the comma in every context of the stack.
CountComma_all(s) ==
    [i \in 1..Len(s) |-> [s[i] EXCEPT !.n = @ + 1]]

\* The comma branch: stack[-1] = replace(stack[-1], n = stack[-1].n + 1).
CountComma(s) == SetTop(s, [Top(s) EXCEPT !.n = @ + 1])

\* The if/elif chain that updates the stack for the current token.
\* Reading stack[-1] of an empty stack raises IndexError.
UpdateRaises(s, t) == t.type \in {FOR, COMMA} /\ s = <<>>

UpdateStack(s, prev_prev, prev, t) ==
    IF is_opening(t) THEN Append(s, OpeningContext(prev_prev, prev, t))
    ELSE IF t.type = LAMBDA_KW THEN Append(s, Context(LAMBDA_PARAMETERS))
    ELSE IF t.type = FOR THEN ForReset(s)
    ELSE IF t.type = COMMA THEN CountComma(s)
    ELSE s

\* comma_allowed that takes any tuple-like context, comma or not.
comma_allowed_without_comma(s, t) ==
    /\ t.type = SOME_CLOSING
    /\ \/ is_always_allowed(Top(s).comma)
       \/ is_tupleish(Top(s).comma) /\ Top(s).n >= 0

\* comma_allowed that does not look at the context.
comma_allowed_any_context(s, t) ==
    t.type = SOME_CLOSING

comma_allowed(s, t) ==
    /\ t.type = SOME_CLOSING
    /\ \/ is_always_allowed(Top(s).comma)
       \/ is_tupleish(Top(s).comma) /\ Top(s).n >= 1

\* comma_prohibited with the tuple-like boundary at one comma.
comma_prohibited_from_one(s, prev, t) ==
    /\ prev.type = COMMA
    /\ \/ /\ t.type = SOME_CLOSING
          /\ \/ is_always_allowed(Top(s).comma)
             \/ is_tupleish(Top(s).comma) /\ Top(s).n >= 1
       \/ /\ Top(s).comma = LAMBDA_PARAMETERS
          /\ t.type = COLON

\* comma_prohibited that never flags a tuple-like context.
comma_prohibited_never_tupleish(s, prev, t) ==
    /\ prev.type = COMMA
    /\ \/ /\ t.type = SOME_CLOSING
          /\ is_always_allowed(Top(s).comma)
       \/ /\ Top(s).comma = LAMBDA_PARAMETERS
          /\ t.type = COLON

\* comma_prohibited that does not ask for comma_allowed.
comma_prohibited_without_allowed(s, prev, t) ==
    /\ prev.type = COMMA
    /\ \/ ~is_tupleish(Top(s).comma) \/ Top(s).n > 1
       \/ Top(s).comma = LAMBDA_PARAMETERS /\ t.type = COLON

comma_prohibited(s, prev, t) ==
    /\ prev.type = COMMA
    /\ \/ /\ comma_allowed(s, t)
          /\ (~is_tupleish(Top(s).comma) \/ Top(s).n > 1)
       \/ /\ Top(s).comma = LAMBDA_PARAMETERS
          /\ t.type = COLON

\* bare_comma_prohibited that takes a blank line for a logical line's end.
bare_comma_prohibited_on_nl(prev, t) ==
    /\ t.type \in {NEWLINE, NL}
    /\ prev.type = COMMA

bare_comma_prohibited(prev, t) ==
    /\ t.type = NEWLINE
    /\ prev.type = COMMA

\* comma_required without the empty-region exemption.
comma_required_no_opening_test(s, prev_prev, prev, t) ==
    /\ comma_allowed(s, t)
    /\ prev.type = NL
    /\ prev_prev.type # COMMA

\* comma_required without the test that the previous token is a blank line.
comma_required_no_nl_test(s, prev_prev, prev, t) ==
    /\ comma_allowed(s, t)
    /\ prev_prev.type # COMMA
    /\ ~is_opening(prev_prev)

comma_required(s, prev_prev, prev, t) ==
    /\ comma_allowed(s, t)
    /\ prev.type = NL
    /\ prev_prev.type # COMMA
    /\ ~is_opening(prev_prev)

\* pop_stack that pops on every colon.
pop_stack_any_colon(s, t) ==
    \/ t.type = SOME_CLOSING
    \/ t.type = COLON

\* pop_stack that pops on a closing bracket only.
pop_stack_closing_only(s, t) ==
    t.type = SOME_CLOSING

pop_stack(s, t) ==
    \/ t.type = SOME_CLOSING
    \/ t.type = COLON /\ Top(s).comma = LAMBDA_PARAMETERS

\* Where the rules read stack[-1] of an empty stack (IndexError): in
\* comma_allowed for a closing bracket, in comma_prohibited after a comma,
\* in pop_stack for a colon.
RulesRaiseEarly(s, prev, t) ==
    s = <<>> /\ (t.type = SOME_CLOSING \/ prev.type = COMMA)

\* One iteration of `for token in tokens:`.  The result holds the locals the
\* iteration leaves behind: the window, the stack, the diagnostics it
\* yielded in order, the exception that ended it ("" for none), and `top`,
\* the stack[-1] its rules read (Context(NO) with n = -1 when the stack was
\* empty and nothing read it).
Iteration(w0, s0, t) ==
    LET w == WindowAppend(w0, t)
        prev_prev == w[1]
        prev == w[2]
        NoTop == [comma |-> NO, n |-> -1]
    IN  IF UpdateRaises(s0, t)
        THEN [window |-> w, stack |-> s0, yielded |-> <<>>,
              raised |-> "IndexError", top |-> NoTop]
        ELSE
        LET s == UpdateStack(s0, prev_prev, prev, t)
        IN  IF RulesRaiseEarly(s, prev, t)
            THEN [window |-> w, stack |-> s, yielded |-> <<>>,
                  raised |-> "IndexError", top |-> NoTop]
            ELSE
            LET live == s # <<>>
                top == IF live THEN Top(s) ELSE NoTop
                prohibited == live /\ comma_prohibited(s, prev, t)
                bare == bare_comma_prohibited(prev, t)
                required == live /\ comma_required(s, prev_prev, prev, t)
                y819 == IF prohibited THEN <<Error(C819, prev.end)>> ELSE <<>>
                y818 == IF bare THEN <<Error(C818, prev.end)>> ELSE <<>>
                y812 == IF required THEN <<Error(C812, prev_prev.end)>>
                        ELSE <<>>
            IN  IF prohibited /\ ~has_info(prev)
                THEN [window |-> w, stack |-> s, yielded |-> <<>>,
                      raised |-> "AssertionError", top |-> top]
                ELSE IF bare /\ ~has_info(prev)
                THEN [window |-> w, stack |-> s, yielded |-> y819,
                      raised |-> "AssertionError", top |-> top]
                ELSE IF required /\ ~has_info(prev_prev)
                THEN [window |-> w, stack |-> s, yielded |-> y819 \o y818,
                      raised |-> "AssertionError", top |-> top]
                ELSE IF ~live
                THEN \* pop_stack: a colon reads stack[-1]; anything else
                     \* short-circuits to False.
                     [window |-> w, stack |-> s,
                      yielded |-> y819 \o y818 \o y812,
                      raised |-> IF t.type = COLON THEN "IndexError" ELSE "",
                      top |-> top]
                ELSE [window |-> w,
                      stack |-> IF pop_stack(s, t) THEN Pop(s) ELSE s,
                      yielded |-> y819 \o y818 \o y812,
                      raised |-> "", top |-> top]

(***************************************************************************)
(* simple_tokens: the comment filter and the blank-line collapse           *)
(***************************************************************************)
\* The filter missing: comments pass.
KeepsToken_all(raw) == TRUE

\* `if t.type != tokenize.COMMENT`
KeepsToken(raw) == raw.type # "COMMENT"

\* `token = next(tokens)` has not run yet.
unbound == [type |-> "unbound", end |-> 0, string |-> ""]

\* No collapse of blank lines.
Collapses_never(tok, next_token) == FALSE

\* `if token.type is TokenType.NL and next_token.type is TokenType.NL: continue`
Collapses(tok, next_token) == tok.type = NL /\ next_token.type = NL

\* The checker's state: simple_tokens' `token`, get_comma_errors' window and
\* stack, the last iteration's `yielded` and `top`, all the diagnostics
\* yielded so far (`errors`), the number of iterations run (`niter`: the
\* tokens simple_tokens has yielded), and the status: "running",
\* "finished" or the exception raised.
InitChecker ==
    [token |-> unbound, window |-> <<none, none>>, stack |-> <<Context(NO)>>,
     yielded |-> <<>>, top |-> Context(NO), errors |-> <<>>, niter |-> 0,
     status |-> "running"]

\* What the generators do when the tokenizer delivers `raw`, ending at `end`.
Feed(c, raw, end) ==
    IF ~KeepsToken(raw) THEN c
    ELSE
    LET next_token == from_token(raw, end)
    IN  IF c.token = unbound THEN [c EXCEPT !.token = next_token]
        ELSE IF Collapses(c.token, next_token) THEN c
        ELSE
        LET r == Iteration(c.window, c.stack, c.token)
        IN  [token |-> next_token, window |-> r.window, stack |-> r.stack,
             yielded |-> r.yielded, top |-> r.top,
             errors |-> c.errors \o r.yielded, niter |-> c.niter + 1,
             status |-> IF r.raised = "" THEN "running" ELSE r.raised]

\* What they do when the tokenizer's stream ends: next(tokens) on an empty
\* stream raises StopIteration inside the generator (a RuntimeError);
\* otherwise the for loop ends, and the pending `token` is never yielded.
Exhaust(c) ==
    [c EXCEPT !.status = IF c.token = unbound THEN "RuntimeError"
                         ELSE "finished"]

(***************************************************************************)
(* The state machine                                                       *)
(***************************************************************************)
\* What the raw stream read so far says of its innermost region: "open"
\* when nothing but blank lines (and comments) followed the last opening
\* bracket, "empty" when the token just read is the closing bracket that
\* ends such a region, "other" otherwise.
RegionAfter(r, raw) ==
    IF raw.type = "COMMENT" THEN r
    ELSE IF raw.string \in {"(", "[", "{"} THEN "open"
    ELSE IF raw.type = "NL" /\ r = "open" THEN "open"
    ELSE IF raw.string \in {")", "]", "}"} /\ r = "open" THEN "empty"
    ELSE "other"

\* What the tokens the loop has processed say of the stream: `nopen`, the
\* opening brackets minus the closing brackets; `nlambda`, the `lambda`
\* tokens minus the colons met while a lambda-parameters context was on
\* top; `balanced`, whether no prefix held more closing than opening
\* brackets; `top_commas`, the commas met outside every region since the
\* start or the last `for` met there.
InitPrefix ==
    [nopen |-> 0, nlambda |-> 0, balanced |-> TRUE, top_commas |-> 0]

\* The prefix once the loop has also processed t, the stack being s before.
PrefixAfter(p, s, t) ==
    LET outside == p.nopen = 0 /\ p.nlambda = 0
        nopen == IF is_opening(t) THEN p.nopen + 1
                 ELSE IF t.type = SOME_CLOSING THEN p.nopen - 1
                 ELSE p.nopen
        nlambda == IF t.type = LAMBDA_KW THEN p.nlambda + 1
                   ELSE IF /\ t.type = COLON
                           /\ s # <<>>
                           /\ Top(s).comma = LAMBDA_PARAMETERS
                   THEN p.nlambda - 1
                   ELSE p.nlambda
    IN  [nopen |-> nopen,
         nlambda |-> nlambda,
         balanced |-> p.balanced /\ nopen >= 0,
         top_commas |-> IF outside /\ t.type = COMMA THEN p.top_commas + 1
                        ELSE IF outside /\ t.type = FOR THEN 0
                        ELSE p.top_commas]

\* The normalized stream the Token Normalizer's contract asks for, of the
\* raw stream read so far: `n`, how many tokens it holds (comments removed,
\* each run of blank lines counted once), and `last`, its last token.
InitExpected == [n |-> 0, last |-> none]

ExpectedAfter(e, raw, end) ==
    IF raw.type = "COMMENT" THEN e
    ELSE IF raw.type = "NL" /\ e.n > 0 /\ e.last.type = NL THEN e
    ELSE [n |-> e.n + 1, last |-> from_token(raw, end)]

VARIABLES
    vocab,      \* the vocabulary of the stream being read
    nread,      \* number of tokens read so far, comments aside
    commented,  \* whether a comment has been read
    region,     \* RegionAfter of the stream read so far
    token,      \* simple_tokens: the pending token
    window,     \* get_comma_errors: the deque of the last three tokens
    stack,      \* get_comma_errors: the context stack
    yielded,    \* the diagnostics the last iteration yielded, in order
    top,        \* the stack[-1] the last iteration's rules read
    errors,     \* the diagnostics yielded so far, in order
    niter,      \* the number of iterations of the loop so far
    status,     \* "running", "finished", or the exception that ended the run
    prefix,     \* PrefixAfter of the tokens the loop has processed
    expected,   \* ExpectedAfter of the stream read so far
    closes_empty, \* whether the last iteration's token closed an empty region
    plain       \* the same run on the stream without its comments

vars ==
    <<vocab, nread, commented, region, token, window, stack, yielded, top,
      errors, niter, status, prefix, expected, closes_empty, plain>>

Checker ==
    [token |-> token, window |-> window, stack |-> stack,
     yielded |-> yielded, top |-> top, errors |-> errors, niter |-> niter,
     status |-> status]

Becomes(c) ==
    /\ token' = c.token
    /\ window' = c.window
    /\ stack' = c.stack
    /\ yielded' = c.yielded
    /\ top' = c.top
    /\ errors' = c.errors
    /\ niter' = c.niter
    /\ status' = c.status

Init ==
    /\ vocab \in Vocabularies
    /\ nread = 0
    /\ commented = FALSE
    /\ region = "other"
    /\ token = InitChecker.token
    /\ window = InitChecker.window
    /\ stack = InitChecker.stack
    /\ yielded = InitChecker.yielded
    /\ top = InitChecker.top
    /\ errors = InitChecker.errors
    /\ niter = InitChecker.niter
    /\ status = InitChecker.status
    /\ prefix = InitPrefix
    /\ expected = InitExpected
    /\ closes_empty = FALSE
    /\ plain = InitChecker

\* The tokenizer delivers a comment: it ends nowhere the checker looks.
ReadComment ==
    /\ status = "running"
    /\ commented' = TRUE
    /\ region' = RegionAfter(region, RawCOMMENT)
    /\ Becomes(Feed(Checker, RawCOMMENT, 0))
    /\ closes_empty' = IF window' # window THEN FALSE ELSE closes_empty
    /\ prefix' = IF window' # window THEN PrefixAfter(prefix, stack, token)
                 ELSE prefix
    /\ expected' = ExpectedAfter(expected, RawCOMMENT, 0)
    /\ UNCHANGED <<vocab, nread, plain>>

\* The tokenizer delivers the next token of the stream; it ends at nread + 1.
Read(raw) ==
    /\ status = "running"
    /\ nread < MaxTokens
    /\ nread' = nread + 1
    /\ region' = RegionAfter(region, raw)
    /\ Becomes(Feed(Checker, raw, nread + 1))
    /\ closes_empty' = IF window' # window THEN region = "empty"
                       ELSE closes_empty
    /\ prefix' = IF window' # window THEN PrefixAfter(prefix, stack, token)
                 ELSE prefix
    /\ expected' = ExpectedAfter(expected, raw, nread + 1)
    /\ plain' = Feed(plain, raw, nread + 1)
    /\ UNCHANGED <<vocab, commented>>

\* The tokenizer's stream ends.
EndOfStream ==
    /\ status = "running"
    /\ Becomes(Exhaust(Checker))
    /\ plain' = Exhaust(plain)
    /\ UNCHANGED <<vocab, nread, commented, region, prefix, expected,
                   closes_empty>>

Next ==
    \/ ReadComment
    \/ \E raw \in vocab : Read(raw)
    \/ EndOfStream

Spec == Init /\ [][Next]_vars

(***************************************************************************)
(* Properties                                                              *)
(***************************************************************************)
\* At least one iteration of the loop has run: the window holds the token
\* it processed and the two before it.
Iterated == Len(window) = 3
cur == window[3]
prev == window[2]
prev_prev == window[1]

\* The diagnostics of one rule among those the last iteration yielded.
YieldedOf(message) == SelectSeq(yielded, LAMBDA e : e.message = message)

OpeningTypes == {"(", "[", "{"}

\* C1: when a closing bracket is processed while the top context is a list,
\* dict-or-set, function-parameters or call-arguments context, C812 is
\* yielded iff the previous token is a blank line and the one before it is
\* neither a comma nor an opening bracket; it is then yielded once, at the
\* end of the token before the blank line.
C1_MissingCommaAlwaysAllowed ==
    ( /\ Iterated
      /\ cur.type = "some-closing"
      /\ top.comma \in {"list", "dict", "function-parameters",
                        "argument-list"} )
    => YieldedOf(C812) =
          IF prev.type = "nl" /\ prev_prev.type \notin {","} \cup OpeningTypes
          THEN <<[message |-> C812, pos |-> prev_prev.end]>>
          ELSE <<>>

C1_Witness ==
    /\ Iterated
    /\ cur.type = "some-closing"
    /\ top = [comma |-> "argument-list", n |-> 0]
    /\ prev.type = "nl"
    /\ prev_prev.type = "named"
    /\ yielded = <<[message |-> C812, pos |-> prev_prev.end]>>

\* C2: a `(` preceded by neither a plain name nor a closing bracket opens a
\* tuple-or-parenthesized-expression context, and the closing bracket of a
\* tuple-like context (that or a subscript) that saw no comma yields no
\* diagnostic of any kind, whatever blank lines the region holds.
C2_GroupingParenthesisNoDiagnostic ==
    /\ ( /\ Iterated
         /\ cur.type = "("
         /\ prev.type \notin {"named", "some-closing"} )
       => top = [comma |-> "tuple-or-parenth-form", n |-> 0]
    /\ ( /\ Iterated
         /\ cur.type = "some-closing"
         /\ top.comma \in {"tuple-or-parenth-form", "subscript"}
         /\ top.n = 0 )
       => yielded = <<>>

C2_Witness ==
    /\ Iterated
    /\ cur.type = "some-closing"
    /\ prev.type = "nl"
    /\ prev_prev.type = "named"
    /\ top = [comma |-> "tuple-or-parenth-form", n |-> 0]
    /\ yielded = <<>>
    /\ status = "running"

\* C3: a `[` preceded by a plain name or a closing bracket opens a subscript
\* context, any other `[` a list context; the closing bracket of a subscript
\* or tuple context with at least one comma, after a blank line that follows
\* neither a comma nor an opening bracket, yields exactly one C812, at the
\* end of the token before the blank line; with no comma it yields no C812.
C3_TupleLikeWithCommaRequiresComma ==
    /\ (Iterated /\ cur.type = "[")
       => top = [comma |-> IF prev.type \in {"named", "some-closing"}
                           THEN "subscript" ELSE "list",
                 n |-> 0]
    /\ ( /\ Iterated
         /\ cur.type = "some-closing"
         /\ top.comma \in {"tuple-or-parenth-form", "subscript"}
         /\ top.n >= 1
         /\ prev.type = "nl"
         /\ prev_prev.type \notin {","} \cup OpeningTypes )
       => YieldedOf(C812) = <<[message |-> C812, pos |-> prev_prev.end]>>
    /\ ( /\ Iterated
         /\ cur.type = "some-closing"
         /\ top.comma \in {"tuple-or-parenth-form", "subscript"}
         /\ top.n = 0 )
       => YieldedOf(C812) = <<>>

C3_Witness ==
    /\ Iterated
    /\ cur.type = "some-closing"
    /\ prev.type = "nl"
    /\ prev_prev.type = "named"
    /\ top = [comma |-> "subscript", n |-> 1]
    /\ yielded = <<[message |-> C812, pos |-> prev_prev.end]>>

\* C4: when a closing bracket is processed right after a comma, C819 is
\* yielded, once and at the end of that comma, iff the top context is a
\* list, dict-or-set, function-parameters or call-arguments context, or a
\* tuple or subscript context with more than one comma; a tuple or
\* subscript context with exactly one comma yields no C819.
C4_ProhibitedCommaBeforeClosing ==
    (Iterated /\ cur.type = "some-closing" /\ prev.type = ",")
    => YieldedOf(C819) =
          IF \/ top.comma \in {"list", "dict", "function-parameters",
                               "argument-list"}
             \/ /\ top.comma \in {"tuple-or-parenth-form", "subscript"}
                /\ top.n > 1
          THEN <<[message |-> C819, pos |-> prev.end]>>
          ELSE <<>>

C4_Witness ==
    /\ Iterated
    /\ cur.type = "some-closing"
    /\ prev.type = ","
    /\ top = [comma |-> "argument-list", n |-> 1]
    /\ yielded = <<[message |-> C819, pos |-> prev.end]>>

\* C5, as stated: in a tuple or subscript context, C819 for a comma right
\* before the closing bracket is yielded only when the context's comma count
\* is exactly 1, and never when it is greater than 1.
C5_AsStated ==
    ( /\ Iterated
      /\ cur.type = "some-closing"
      /\ prev.type = ","
      /\ top.comma \in {"tuple-or-parenth-form", "subscript"} )
    => /\ YieldedOf(C819) # <<>> => top.n = 1
       /\ top.n > 1 => YieldedOf(C819) = <<>>

\* C5, amended: in a tuple or subscript context, a comma right before the
\* closing bracket has been counted (the count is at least 1); with a count
\* of exactly 1 no C819 is yielded, and with a count greater than 1 the
\* iteration yields C819 at the end of that comma and nothing else.
C5_TupleLikeBoundary ==
    ( /\ Iterated
      /\ cur.type = "some-closing"
      /\ prev.type = ","
      /\ top.comma \in {"tuple-or-parenth-form", "subscript"} )
    => /\ top.n >= 1
       /\ top.n = 1 => yielded = <<>>
       /\ top.n > 1 => yielded = <<[message |-> C819, pos |-> prev.end]>>

C5_Witness ==
    /\ Iterated
    /\ cur.type = "some-closing"
    /\ prev.type = ","
    /\ prev_prev.type = ","
    /\ top = [comma |-> "tuple-or-parenth-form", n |-> 2]
    /\ yielded = <<[message |-> C819, pos |-> prev.end]>>

\* C6: the closing bracket of a region that holds nothing but blank lines
\* and comments never yields C812, whatever bracket opened the region.
C6_EmptyRegionExemption ==
    closes_empty => YieldedOf(C812) = <<>>

C6_Witness ==
    /\ closes_empty
    /\ Iterated
    /\ cur.type = "some-closing"
    /\ prev.type = "nl"
    /\ prev.end + 1 < cur.end
    /\ commented
    /\ top = [comma |-> "dict", n |-> 0]
    /\ yielded = <<>>

\* The step runs one iteration of the loop, on the pending `token`.
Iterates == window' # window

\* C7: processing a `for` token replaces the top context by (no-op, 0) and
\* leaves the contexts below it as they are; a closing bracket processed
\* while a no-op context is on top, whatever commas and blank lines came
\* before it, yields neither C812 nor C819 and pops exactly that context.
C7_ComprehensionImmunity ==
    [][ (Iterates /\ stack # <<>>)
        => /\ token.type = "for"
              => /\ Len(stack') = Len(stack)
                 /\ stack'[Len(stack)] = [comma |-> "no", n |-> 0]
                 /\ \A i \in 1..(Len(stack) - 1) : stack'[i] = stack[i]
           /\ (token.type = "some-closing" /\ stack[Len(stack)].comma = "no")
              => /\ \A i \in 1..Len(yielded') :
                       yielded'[i].message \notin {C812, C819}
                 /\ stack' = SubSeq(stack, 1, Len(stack) - 1)
      ]_vars

C7_Witness ==
    /\ Iterated
    /\ cur.type = "some-closing"
    /\ prev.type = "nl"
    /\ prev_prev.type = ","
    /\ top = [comma |-> "no", n |-> 1]
    /\ stack = <<[comma |-> "no", n |-> 0]>>
    /\ yielded = <<>>

\* C8: an iteration yields C818 iff its token ends a logical line and the
\* previous token is a comma, whatever the context stack holds; it yields it
\* once, at the end of that comma.
C8_BareTupleRule ==
    Iterated
    => YieldedOf(C818) =
          IF cur.type = "newline" /\ prev.type = ","
          THEN <<[message |-> C818, pos |-> prev.end]>>
          ELSE <<>>

C8_Witness ==
    /\ Iterated
    /\ cur.type = "newline"
    /\ prev.type = ","
    /\ Len(stack) = 2
    /\ top = [comma |-> "tuple-or-parenth-form", n |-> 1]
    /\ yielded = <<[message |-> C818, pos |-> prev.end]>>

\* C9: a `lambda` token pushes a lambda-parameters context; a colon
\* processed while the top context is lambda-parameters pops that context
\* and yields exactly one C819, at the end of the previous token, if that
\* token is a comma, and nothing otherwise; a colon processed while the top
\* context is of another kind neither pops nor yields.
C9_LambdaBoundary ==
    [][ Iterates
        => /\ token.type = "lambda"
              => stack' = Append(stack, [comma |-> "lambda-parameters",
                                         n |-> 0])
           /\ (token.type = ":" /\ stack # <<>>)
              => IF stack[Len(stack)].comma = "lambda-parameters"
                 THEN /\ stack' = SubSeq(stack, 1, Len(stack) - 1)
                      /\ yielded' =
                            IF window'[2].type = ","
                            THEN <<[message |-> C819,
                                    pos |-> window'[2].end]>>
                            ELSE <<>>
                 ELSE /\ stack' = stack
                      /\ yielded' = <<>>
      ]_vars

C9_Witness ==
    /\ Iterated
    /\ cur.type = ":"
    /\ prev.type = ","
    /\ top = [comma |-> "lambda-parameters", n |-> 2]
    /\ stack = <<[comma |-> "no", n |-> 0]>>
    /\ yielded = <<[message |-> C819, pos |-> prev.end]>>

\* C10: the run on a stream with comments yields the same diagnostics, and
\* is in the same state, as the run on the stream without them.
C10_CommentTransparency ==
    Checker = plain

C10_Witness ==
    /\ commented
    /\ Iterated
    /\ cur.type = "some-closing"
    /\ prev.type = "nl"
    /\ prev.end + 1 < cur.end
    /\ prev_prev.type = "named"
    /\ top = [comma |-> "list", n |-> 1]
    /\ yielded = <<[message |-> C812, pos |-> prev_prev.end]>>
    /\ plain.yielded = yielded

\* C11: the diagnostics are yielded in non-decreasing order of position:
\* none is at a position before that of a diagnostic yielded earlier.
C11_DiagnosticOrder ==
    \A i, j \in 1..Len(errors) : i < j => errors[i].pos <= errors[j].pos

\* A C819, at the previous token, then a C812, at the token two back of a
\* later iteration.
C11_Witness ==
    /\ Len(errors) = 2
    /\ errors[1].message = C819
    /\ errors[2].message = C812
    /\ errors[1].pos < errors[2].pos
    /\ yielded = <<errors[2]>>

\* C12: the normalizer does not fail, and once the stream has ended it has
\* yielded every token of the stream that is not a comment and does not
\* continue a run of blank lines, the last one included, once each and in
\* order: it has yielded as many tokens as the contract asks for, and the
\* last token it yielded, the loop's current token, is the last of them.
C12_AsStated ==
    /\ status # "RuntimeError"
    /\ status = "finished"
       => /\ niter = expected.n
          /\ expected.n > 0 => window[Len(window)] = expected.last

\* What simple_tokens does instead: it has yielded every such token but
\* the last, which it still holds in `token` when the stream ends.
C12_LastTokenHeld ==
    (status \in {"running", "finished"} /\ expected.n > 0)
    => /\ token = expected.last
       /\ niter = expected.n - 1
       /\ niter > 0 => window[Len(window)].end < token.end

\* The tokens of the window that were read from the stream.
WindowTokens == {window[i] : i \in 1..Len(window)}

\* The reserved words of the streams explored that have no token type of
\* their own.
OtherReserved == {"return", "yield", "in", "not", "assert"}

\* How the identifiers of the streams explored are classified: `x` and
\* `import` are plain names, no reserved word is.
C13_Classification ==
    \A t \in WindowTokens :
        /\ t.string \in {"x", "import"} => t.type = "named"
        /\ t.string \in OtherReserved => t.type = "None"
        /\ t.string = "for" => t.type = "for"
        /\ t.string = "def" => t.type = "def"
        /\ t.string = "lambda" => t.type = "lambda"

\* A bracket that follows a reserved word other than `import` opens a
\* tuple-or-parenthesized context, or a list context.
C13_AfterReserved ==
    (Iterated /\ prev.string \in OtherReserved)
    => /\ cur.type = "(" => top = [comma |-> "tuple-or-parenth-form", n |-> 0]
       /\ cur.type = "[" => top = [comma |-> "list", n |-> 0]

\* C13 as stated: identifiers are classified so, and a `(` that follows
\* `import` opens a call-arguments context.
C13_AsStated ==
    /\ C13_Classification
    /\ C13_AfterReserved
    /\ (Iterated /\ cur.type = "(" /\ prev.string = "import")
       => top = [comma |-> "argument-list", n |-> 0]

\* C13: identifiers are classified so, and a `(` that follows `import`
\* opens what it opens after any plain name: a function-parameters
\* context when the token before `import` is `def`, a call-arguments
\* context otherwise; on the multi-line close of that context a missing
\* trailing comma is flagged.
C13_KeywordVersusName ==
    /\ C13_Classification
    /\ C13_AfterReserved
    /\ (Iterated /\ cur.type = "(" /\ prev.string = "import")
       => top = [comma |-> IF prev_prev.type = "def"
                           THEN "function-parameters"
                           ELSE "argument-list",
                 n |-> 0]
    /\ ( /\ Iterated
         /\ cur.type = "some-closing"
         /\ prev.type = "nl"
         /\ prev_prev.string = "import"
         /\ top.comma \in {"function-parameters", "argument-list"} )
       => yielded = <<[message |-> C812, pos |-> prev_prev.end]>>

\* `import ( import NL )`: the call-arguments context opened after `import`
\* is closed on a new line without a trailing comma.
C13_Witness ==
    /\ Name("return") \in vocab
    /\ nread = 6
    /\ Iterated
    /\ cur.type = "some-closing"
    /\ prev.type = "nl"
    /\ prev_prev.string = "import"
    /\ top = [comma |-> "argument-list", n |-> 0]
    /\ stack = <<[comma |-> "no", n |-> 0]>>
    /\ errors = <<[message |-> C812, pos |-> prev_prev.end]>>

\* C14 as stated: after any prefix of a stream no prefix of which holds
\* more closing than opening brackets, the stack is non-empty and its
\* bottom element is the no-op context with comma count 0.
C14_AsStated ==
    prefix.balanced
    => /\ stack # <<>>
       /\ stack[1] = [comma |-> "no", n |-> 0]

\* C14: after any such prefix, the stack is non-empty and its bottom
\* element is a no-op context; its comma count is the number of commas
\* processed outside every region since the start of the stream or the
\* last `for` processed outside every region.
C14_BottomOfStack ==
    prefix.balanced
    => /\ stack # <<>>
       /\ stack[1] = [comma |-> "no", n |-> prefix.top_commas]

\* Two commas outside every region, then a region is opened above the
\* bottom context.
C14_Witness ==
    /\ prefix.balanced
    /\ Iterated
    /\ cur.type = "("
    /\ stack = <<[comma |-> "no", n |-> 2],
                 [comma |-> "tuple-or-parenth-form", n |-> 0]>>

\* What an iteration on token t adds to the depth of stack s, by the
\* claim: one on an opening bracket or `lambda`, minus one on a closing
\* bracket and on a colon met while the top context is lambda-parameters,
\* nothing on any other token.
C15_Change(s, t) ==
    IF t.type \in {"(", "[", "{", "lambda"} THEN 1
    ELSE IF t.type = "some-closing" THEN -1
    ELSE IF /\ t.type = ":"
            /\ s # <<>>
            /\ s[Len(s)].comma = "lambda-parameters" THEN -1
    ELSE 0

\* C15: as long as no iteration has failed, the depth of the stack is 1
\* plus the opening brackets not yet closed plus the lambda-parameter
\* regions not yet closed by a colon; and every iteration that does not
\* fail changes the depth by C15_Change, so that a context is pushed on
\* `(`, `[`, `{` and `lambda` only, and popped on a closing bracket and on a
\* colon met while the top context is lambda-parameters only.
C15_StackDepth ==
    /\ [](status \in {"running", "finished"}
          => Len(stack) = 1 + prefix.nopen + prefix.nlambda)
    /\ [][ (Iterates /\ status' = "running")
           => Len(stack') = Len(stack) + C15_Change(stack, token) ]_vars

\* A lambda-parameters context and a bracket above it, then the bracket is
\* closed and the colon pops the lambda-parameters context.
C15_Witness ==
    /\ Iterated
    /\ cur.type = ":"
    /\ prev.type = "some-closing"
    /\ top.comma = "lambda-parameters"
    /\ prefix = [nopen |-> 0, nlambda |-> 0, balanced |-> TRUE,
                 top_commas |-> 0]
    /\ Len(stack) = 1
    /\ niter >= 4

\* C16 as stated: a `(` pushes function-parameters if the token two back
\* is `def`, whatever the previous token is; otherwise call-arguments if
\* the previous token is a closing bracket or a plain name; otherwise
\* tuple-or-parenthesized; with comma count 0.
C16_AsStated ==
    (Iterated /\ cur.type = "(")
    => top = [comma |-> IF prev_prev.type = "def"
                        THEN "function-parameters"
                        ELSE IF prev.type \in {"some-closing", "named"}
                             THEN "argument-list"
                             ELSE "tuple-or-parenth-form",
              n |-> 0]

\* C16: a `(` pushes tuple-or-parenthesized unless the previous token is a
\* closing bracket or a plain name; after one of these it pushes
\* function-parameters if the token two back is `def`, call-arguments
\* otherwise; with comma count 0, above the stack as it was.
C16_ParenthesisClassification ==
    (Iterated /\ cur.type = "(")
    => /\ top = [comma |-> IF prev.type \in {"some-closing", "named"}
                           THEN IF prev_prev.type = "def"
                                THEN "function-parameters"
                                ELSE "argument-list"
                           ELSE "tuple-or-parenth-form",
                 n |-> 0]
       /\ stack # <<>>
       /\ stack[Len(stack)] = top

\* `def`, a token that is neither a closing bracket nor a plain name, `(`:
\* a tuple-or-parenthesized context is pushed.
C16_Witness ==
    /\ Iterated
    /\ cur.type = "("
    /\ prev_prev.type = "def"
    /\ prev.type = "nl"
    /\ top = [comma |-> "tuple-or-parenth-form", n |-> 0]
    /\ stack = <<[comma |-> "no", n |-> 0], top>>

\* C17: a comma increments the comma count of the top context by one,
\* keeps its kind and leaves every context below it as it is. No iteration
\* changes a context below the top: it pushes a context above the stack as
\* it is, pops the top, replaces the top, or leaves the stack alone. Hence
\* when a region pushed above a context has been popped, that context is
\* what it was before the push.
C17_ScopedCommaCount ==
    [][ (Iterates /\ status' = "running")
        => /\ (token.type = "," /\ stack # <<>>)
              => /\ Len(stack') = Len(stack)
                 /\ stack'[Len(stack)].comma = stack[Len(stack)].comma
                 /\ stack'[Len(stack)].n = stack[Len(stack)].n + 1
           /\ \A i \in 1..(Len(stack) - 1) :
                 i <= Len(stack') => stack'[i] = stack[i]
           /\ Len(stack') > Len(stack)
              => SubSeq(stack', 1, Len(stack)) = stack
      ]_vars

\* `[ , [ , , ]`: the list context with two commas has been popped, and
\* the context below it still counts one comma.
C17_Witness ==
    /\ Iterated
    /\ cur.type = "some-closing"
    /\ prev.type = ","
    /\ top = [comma |-> "list", n |-> 2]
    /\ stack = <<[comma |-> "no", n |-> 0],
                 [comma |-> "list", n |-> 1]>>

\* C18 as stated: on a stream that is not empty and no prefix of which
\* holds more closing than opening brackets, no iteration reads, replaces
\* or pops the top of an empty stack, the stack is never left empty (no
\* colon and no closing bracket pops the bottom context), the analysis ends
\* without an exception, and when it ends it has processed every token of
\* the normalized stream.
C18_AsStated ==
    (prefix.balanced /\ (nread > 0 \/ commented))
    => /\ status \in {"running", "finished"}
       /\ stack # <<>>
       /\ status = "finished" => niter = expected.n

\* The part of C18 about the stack: on such a stream no iteration fails on
\* an empty stack and the stack is never left empty.
C18_StackNeverEmpty ==
    prefix.balanced
    => /\ status \notin {"IndexError", "AssertionError"}
       /\ stack # <<>>

\* C19: no position assertion fails, on any stream: a C819 or a C818 is
\* yielded only when the previous token is a token of the stream, a C812
\* only when the token two back is one; neither is then the placeholder
\* the window starts with, which has no position.
C19_PositionAssertions ==
    /\ status # "AssertionError"
    /\ Iterated
       => /\ (YieldedOf(C819) # <<>> \/ YieldedOf(C818) # <<>>)
             => prev # none /\ prev.end > 0
          /\ YieldedOf(C812) # <<>>
             => prev_prev # none /\ prev_prev.end > 0

\* The earliest diagnostic a stream can have: a C818 at its first token,
\* while the token two back is still the placeholder.
C19_Witness ==
    /\ Iterated
    /\ prev_prev = none
    /\ prev.type = ","
    /\ prev.end = 1
    /\ cur.type = "newline"
    /\ yielded = <<[message |-> C818, pos |-> 1]>>

\* C20: an iteration yields at most one diagnostic, the conditions of
\* C819, C818 and C812 excluding one another, and the diagnostics yielded
\* so far are never more than the tokens processed.
C20_AtMostOneDiagnostic ==
    /\ Len(yielded) <= 1
    /\ ~ (YieldedOf(C819) # <<>> /\ YieldedOf(C818) # <<>>)
    /\ ~ (YieldedOf(C819) # <<>> /\ YieldedOf(C812) # <<>>)
    /\ ~ (YieldedOf(C818) # <<>> /\ YieldedOf(C812) # <<>>)
    /\ Len(errors) <= niter

\* `x , NEWLINE x , NEWLINE`: two iterations have yielded one diagnostic
\* each.
C20_Witness ==
    /\ Iterated
    /\ niter = 6
    /\ cur.type = "newline"
    /\ Len(errors) = 2
    /\ errors[1].message = C818
    /\ yielded = <<[message |-> C818, pos |-> prev.end]>>
    /\ errors[2] = yielded[1]

=============================================================================
